---- MODULE Spec2Model ----
(***************************************************************************)
(* rust-mbtileserver: the request handler (service.rs, get_service), the   *)
(* host allow-list (is_host_valid) and the background rescan task of       *)
(* main.rs that replaces the shared tileset catalog under an RwLock.       *)
(*                                                                         *)
(* Strings that the code inspects character by character (the Host header, *)
(* the allow rules) are sequences of one-character strings.  A request     *)
(* path is the sequence of its '/'-separated segments.                     *)
(***************************************************************************)
EXTENDS Integers, Sequences, FiniteSets, TLC

VARIABLES
    allowed_hosts,  \* args.allowed_hosts: sequence of rules
    headers,        \* args.headers: sequence of <<name, value>>
    disable_preview,\* args.disable_preview
    scan_interval,  \* args.scan_interval
    subdomain,      \* args.sub_domain
    workers,        \* worker threads of the runtime
    running,        \* tasks that occupy a worker thread
    conns,          \* pooled connections checked out: <<handler, id, scan>>
    disk,           \* tileset ids whose container file is in the directory
    shared,         \* SharedData.tileset behind the RwLock
    readers,        \* handlers holding the read lock
    writer,         \* TRUE while the rescan task holds the write lock
    rpc,            \* position of the rescan task
    scanned,        \* catalog being built by the running discover_tilesets
    visited,        \* files the running directory walk has looked at
    gen,            \* number of scans started (startup scan is 0)
    published,      \* history: every catalog value stored into shared
    pc,             \* position of each handler
    req,            \* the request each handler is serving
    snap,           \* handler-local clone of the catalog (tilesets)
    resp,           \* the response each handler produced
    probe           \* the storage access a handler made, if any

vars == <<allowed_hosts, headers, disable_preview, scan_interval, subdomain, workers,
          running, conns, disk, shared, readers, writer,
          rpc, scanned, visited, gen, published, pc, req, snap, resp, probe>>

----------------------------------------------------------------------------
(* Bounds *)

\* rescans the background task performs before the model stops it
MaxScans == 2
\* longest Host value enumerated for the pure host check
MaxHostLen == 3
\* longest suffix S of the enumerated rules ".S"
MaxRuleLen == 2
\* connections of one tileset's pool
PoolSize == 1

----------------------------------------------------------------------------
(* Character strings *)

StartsWith(s, p) == Len(s) >= Len(p) /\ SubSeq(s, 1, Len(p)) = p

EndsWith(s, p) ==
    Len(s) >= Len(p) /\ SubSeq(s, Len(s) - Len(p) + 1, Len(s)) = p

\* str::split(c).next(): the part before the first c (the whole string if none)
SplitFirst(s, c) ==
    IF \E i \in 1..Len(s) : s[i] = c
    THEN LET i == CHOOSE k \in 1..Len(s) :
                      s[k] = c /\ \A j \in 1..(k - 1) : s[j] # c
         IN  SubSeq(s, 1, i - 1)
    ELSE s

\* String::split_off(at): the returned tail, bytes [at, len)
SplitOff(s, at) == SubSeq(s, at + 1, Len(s))

\* a byte outside visible ASCII, which HeaderValue::to_str refuses
NonAscii == "\\xff"

\* Option<&HeaderValue>::None
NoHost == <<"<none>">>

\* HeaderValue::to_str() is Ok
ToStrOk(host) == \A i \in 1..Len(host) : host[i] # NonAscii

----------------------------------------------------------------------------
(* Host allow-list: is_host_valid *)

\* one iteration of the loop over allowed_hosts
PatternMatches(pattern, host) ==
    \/ pattern = <<"*">>
    \/ pattern = host
    \/ /\ StartsWith(pattern, <<".">>)
       /\ EndsWith(host, SplitOff(pattern, 1))

\* host.unwrap().to_str().unwrap() aborts the handler
is_host_valid_panics(host) == host # NoHost /\ ~ToStrOk(host)

is_host_valid(host, rules) ==
    IF host = NoHost THEN FALSE
    ELSE LET h == SplitFirst(host, ":")
         IN  \E i \in 1..Len(rules) : PatternMatches(rules[i], h)

----------------------------------------------------------------------------
(* Tilesets on disk and the catalog (tiles.rs: discover_tilesets, TileMeta) *)

T1 == <<"t1">>             \* ./t1.mbtiles: png tiles with UTFGrid data
T2 == <<"dir", "t2">>      \* ./dir/t2.mbtiles: pbf tiles, no grids
TMap == <<"t1", "map">>    \* ./t1/map.mbtiles: pbf tiles, no grids
Unknown == <<"nope">>      \* an id no file ever has

Files == {T1, T2}

\* the directories of the request-level specification
AllFiles == Files \cup {TMap}

\* format and grid_format that the metadata table of each file declares
TileFormatOf(id) == IF id = T1 THEN "png" ELSE "pbf"
GridFormatOf(id) == IF id = T1 THEN "Some" ELSE "None"

\* rows of the tiles table (zoom_level, tile_column, tile_row), TMS rows
TilesOf(id) ==
    IF id = T1 THEN {<<0, 0, 0>>, <<1, 0, 0>>} ELSE {<<0, 0, 0>>, <<1, 1, 1>>}

\* cells that have grid data
GridsOf(id) == IF id = T1 THEN {<<0, 0, 0>>} ELSE {}

\* serde_json's null
Null == <<"null", "null">>

\* a JSON object: a function from its keys to their values
Obj(k, v) == [i \in {k} |-> v]

\* Option<JSONValue>
None == [some |-> FALSE, obj |-> <<>>]
Some(obj) == [some |-> TRUE, obj |-> obj]

\* the free-form object of the "json" row of the metadata table, if any
ExtraOf(id) ==
    CASE id = T2   -> Some(Obj("vector_layers", <<"layers", id>>)
                             @@ Obj("name", <<"extra", "name">>))
      [] id = TMap -> Some(Obj("tiles", <<"extra", "tiles">>)
                             @@ Obj("map", <<"extra", "map">>))
      [] OTHER     -> None

\* the value of a metadata field that the handler only copies
MetaField(id, k) == <<k, id>>

\* the TileMeta that scan number g builds for a file (with its own pool)
TileMeta(id, g) ==
    [id |-> id, scan |-> g,
     tile_format |-> TileFormatOf(id), grid_format |-> GridFormatOf(id),
     json |-> ExtraOf(id)]

EmptyCatalog == [i \in {} |-> TileMeta(T1, 0)]

\* HashMap::insert
Insert(cat, id, meta) ==
    [i \in (DOMAIN cat) \cup {id} |-> IF i = id THEN meta ELSE cat[i]]

\* the result of a whole, undisturbed discover_tilesets over directory d
Discover(d, g) == [i \in d |-> TileMeta(i, g)]

\* get_tile_data: SELECT tile_data ... WHERE zoom_level, tile_column, tile_row
get_tile_data(meta, z, x, y) ==
    IF <<z, x, y>> \in TilesOf(meta.id)
    THEN [ok |-> TRUE, data |-> <<"tile", meta.id, z, x, y>>]
    ELSE [ok |-> FALSE, data |-> <<>>]

\* get_grid_data: the grid and its key data for a cell
get_grid_data(meta, z, x, y) ==
    IF <<z, x, y>> \in GridsOf(meta.id)
    THEN [ok |-> TRUE, data |-> <<"grid", meta.id, z, x, y>>]
    ELSE [ok |-> FALSE, data |-> <<>>]

\* utils::encode: gzip of a byte string
encode(data) == <<"gzip", data>>

\* utils::get_blank_image
get_blank_image == <<"blank.png">>

\* serde_json::to_vec
to_vec(data) == <<"json", data>>

\* DataFormat::new(ext).content_type()
content_type(ext) ==
    CASE ext = "png"  -> "image/png"
      [] ext = "jpg"  -> "image/jpeg"
      [] ext = "json" -> "application/json"
      [] ext = "pbf"  -> "application/x-protobuf"
      [] OTHER        -> ""

----------------------------------------------------------------------------
(* Request paths.  A path is the sequence of its segments; a segment is a   *)
(* name, a decimal number, or "<number>.<ext>".  big marks a decimal that   *)
(* exceeds u32::MAX.                                                        *)

Name(s)      == [t |-> "name", s |-> s, n |-> 0, big |-> FALSE, ext |-> ""]
Num(n)       == [t |-> "num", s |-> "", n |-> n, big |-> FALSE, ext |-> ""]
BigNum       == [t |-> "num", s |-> "", n |-> 0, big |-> TRUE, ext |-> ""]
File(n, ext) == [t |-> "file", s |-> "", n |-> n, big |-> FALSE, ext |-> ext]

\* the characters of the names the model uses
Chars(s) ==
    CASE s = "services"    -> <<"s", "e", "r", "v", "i", "c", "e", "s">>
      [] s = "servicesfoo" -> <<"s", "e", "r", "v", "i", "c", "e", "s", "f", "o", "o">>
      [] OTHER             -> <<s>>

\* the text of a segment, as a catalog key component
SegText(seg) ==
    CASE seg.t = "name" -> seg.s
      [] seg.t = "num"  -> IF seg.big THEN "big" ELSE ToString(seg.n)
      [] OTHER          -> ToString(seg.n) \o "." \o seg.ext

\* segments[a..b].join("/") as a catalog key
Join(segs, a, b) == [i \in 1..(b - a + 1) |-> SegText(segs[a + i - 1])]

\* uri.path().replace("/api/tileserver/", "/"): non-overlapping, left to right
RECURSIVE ReplaceGateway(_)
ReplaceGateway(segs) ==
    IF segs = <<>> THEN <<>>
    ELSE IF /\ Len(segs) >= 3
            /\ segs[1] = Name("api")
            /\ segs[2] = Name("tileserver")
         THEN <<segs[3]>> \o ReplaceGateway(SubSeq(segs, 4, Len(segs)))
         ELSE <<segs[1]>> \o ReplaceGateway(Tail(segs))

\* positions i of a "tiles" segment at which TILE_URL_RE can match:
\* /services/<tile_path>/tiles/<z>/<x>/<y>.<format>, nothing anchored after
TileMatchAt(segs) ==
    {i \in 3..(Len(segs) - 3) :
        /\ segs[1] = Name("services")
        /\ segs[i] = Name("tiles")
        /\ segs[i + 1].t = "num"
        /\ segs[i + 2].t = "num"
        /\ segs[i + 3].t = "file"}

\* TILE_URL_RE.captures(&path): the greedy tile_path takes the last position
TileCaptures(segs) ==
    LET at == TileMatchAt(segs)
        i  == CHOOSE k \in at : \A j \in at : j <= k
    IN  [tile_path |-> Join(segs, 2, i - 1),
         z |-> segs[i + 1], x |-> segs[i + 2], y |-> segs[i + 3],
         format |-> segs[i + 3].ext]

\* str::parse::<u32>() is Err
ParseFails(seg) == seg.big

\* (1 << z) - 1 - y on u32.  A build with overflow checks aborts where the
\* shift or the subtraction overflows; a build without them masks the shift
\* count and wraps.  A wrapped row 2^32 - k is written -k.
TmsRow(z, y) ==
    LET one == 2 ^ (z % 32)
    IN  IF z < 32 /\ y <= one - 1
        THEN {[ok |-> TRUE, row |-> one - 1 - y]}
        ELSE {[ok |-> FALSE, row |-> 0], [ok |-> TRUE, row |-> one - 1 - y]}

----------------------------------------------------------------------------
(* Responses *)

Response(status, body, ctype, cenc, hdrs) ==
    [status |-> status, body |-> body, content_type |-> ctype,
     content_encoding |-> cenc, headers |-> hdrs]

NoResp == Response(0, <<>>, "", "", <<>>)

not_found == Response(404, <<"Not Found">>, "", "", <<>>)

no_content == Response(204, <<>>, "", "", <<>>)

forbidden == Response(403, <<"Forbidden">>, "", "", <<>>)

bad_request(msg) == Response(400, msg, "", "", <<>>)

tile_map == Response(200, <<"map.html">>, "", "", <<>>)

\* what a handler did with storage: nothing, or one lookup
NoProbe == [kind |-> "none", id |-> <<>>, cell |-> <<>>, hit |-> FALSE]
Probe(kind, meta, z, x, y, hit) ==
    [kind |-> kind, id |-> meta.id, cell |-> <<z, x, y>>, hit |-> hit]

Abort == [abort |-> TRUE, resp |-> NoResp, probe |-> NoProbe]
Reply(r, p) == [abort |-> FALSE, resp |-> r, probe |-> p]

GridResponse_NoGridIsNoContent(meta, z, x, y, hdrs) ==
    LET g == get_grid_data(meta, z, x, y)
    IN  IF meta.grid_format = "Some" /\ g.ok
        THEN Reply(Response(200, encode(to_vec(g.data)),
                            content_type("json"), "gzip", hdrs),
                   Probe("grid", meta, z, x, y, TRUE))
        ELSE Reply(no_content, Probe("grid", meta, z, x, y, FALSE))

\* the "json" arm of the match on data_format
GridResponse(meta, z, x, y, hdrs) ==
    IF meta.grid_format = "Some"
    THEN LET g == get_grid_data(meta, z, x, y)
         IN  IF g.ok
             THEN Reply(Response(200, encode(to_vec(g.data)),
                                 content_type("json"), "gzip", hdrs),
                        Probe("grid", meta, z, x, y, TRUE))
             ELSE Reply(no_content, Probe("grid", meta, z, x, y, FALSE))
    ELSE Reply(not_found, NoProbe)

PbfResponse_Encoded(meta, z, x, y, hdrs) ==
    LET t == get_tile_data(meta, z, x, y)
    IN  IF t.ok
        THEN Reply(Response(200, encode(t.data), content_type("pbf"), "gzip", hdrs),
                   Probe("tile", meta, z, x, y, TRUE))
        ELSE Reply(no_content, Probe("tile", meta, z, x, y, FALSE))

\* the "pbf" arm
PbfResponse(meta, z, x, y, hdrs) ==
    LET t == get_tile_data(meta, z, x, y)
    IN  IF t.ok
        THEN Reply(Response(200, t.data, content_type("pbf"), "gzip", hdrs),
                   Probe("tile", meta, z, x, y, TRUE))
        ELSE Reply(no_content, Probe("tile", meta, z, x, y, FALSE))

RasterResponse_MissIsNoContent(meta, z, x, y, fmt, hdrs) ==
    LET t == get_tile_data(meta, z, x, y)
    IN  IF t.ok
        THEN Reply(Response(200, t.data, content_type(fmt), "", hdrs),
                   Probe("tile", meta, z, x, y, TRUE))
        ELSE Reply(no_content, Probe("tile", meta, z, x, y, FALSE))

\* the "_" arm: any other extension
RasterResponse(meta, z, x, y, fmt, hdrs) ==
    LET t    == get_tile_data(meta, z, x, y)
        data == IF t.ok THEN t.data ELSE get_blank_image
    IN  Reply(Response(200, data, content_type(fmt), "", hdrs),
              Probe("tile", meta, z, x, y, t.ok))

\* the Some(matches) arm of get_service: every outcome the build can produce
TileRoute(m, tilesets, hdrs) ==
    IF m.tile_path \notin DOMAIN tilesets THEN {Abort}
    ELSE IF ParseFails(m.z) \/ ParseFails(m.x) \/ ParseFails(m.y) THEN {Abort}
    ELSE LET meta == tilesets[m.tile_path]
         IN  {IF ~r.ok THEN Abort
              ELSE CASE m.format = "json" ->
                          GridResponse(meta, m.z.n, m.x.n, r.row, hdrs)
                     [] m.format = "pbf" ->
                          PbfResponse(meta, m.z.n, m.x.n, r.row, hdrs)
                     [] OTHER ->
                          RasterResponse(meta, m.z.n, m.x.n, r.row, m.format, hdrs)
              : r \in TmsRow(m.z.n, m.y.n)}

\* Option<&str> of uri.query() and uri.scheme_str(): None
NoQuery == "<none>"
NoScheme == "<none>"

BaseUrl_HttpDefault(request) ==
    [scheme |-> IF request.scheme = NoScheme THEN "http://"
                ELSE request.scheme \o "://",
     host |-> request.host, subdomain |-> subdomain, services |-> "/services"]

\* base_url: scheme, Host header, subdomain, "/services"
BaseUrl(request) ==
    [scheme |-> IF request.scheme = NoScheme THEN "https://"
                ELSE request.scheme \o "://",
     host |-> request.host, subdomain |-> subdomain, services |-> "/services"]

\* the keys of a map in the order the iteration meets them
RECURSIVE Keys(_)
Keys(ids) ==
    IF ids = {} THEN <<>>
    ELSE LET i == CHOOSE k \in ids : TRUE IN <<i>> \o Keys(ids \ {i})

\* the listing body: one TileSummaryJSON pushed per entry of the snapshot
Listing(request, tilesets) ==
    LET order == Keys(DOMAIN tilesets)
    IN  <<"listing",
          [n \in 1..Len(order) |->
              [image_type |-> tilesets[order[n]].tile_format,
               url |-> [base |-> BaseUrl(request), id |-> order[n]]]]>>

\* query_string
QueryString(request) ==
    IF request.query = NoQuery THEN "" ELSE "?" \o request.query

\* format!("{}/{}/tiles/{{z}}/{{x}}/{{y}}.{}{}", base_url, tile_name, ext, query)
Template(base, tile_name, ext, query_string) ==
    [base |-> base, id |-> tile_name, tiles |-> "/tiles/",
     z |-> "{z}", x |-> "{x}", y |-> "{y}", ext |-> ext, query |-> query_string]

\* the keys of the json! object
TileJsonKeys ==
    {"name", "version", "tiles", "tilejson", "scheme", "id", "format", "grids",
     "bounds", "center", "minzoom", "maxzoom", "description", "attribution",
     "type", "legend", "template"}

\* the json! object: an Option that is None serializes as null
Computed(request, tile_name, meta) ==
    [k \in TileJsonKeys |->
        CASE k = "tiles" ->
                <<Template(BaseUrl(request), tile_name, meta.tile_format,
                           QueryString(request))>>
          [] k = "grids" ->
                IF meta.grid_format = "Some"
                THEN <<Template(BaseUrl(request), tile_name, "json",
                                QueryString(request))>>
                ELSE Null
          [] k = "format" -> meta.tile_format
          [] OTHER -> MetaField(meta.id, k)]

Merge_KeepComputed(doc, extra) ==
    [k \in (DOMAIN doc) \cup (DOMAIN extra) |->
        IF k \in DOMAIN doc THEN doc[k] ELSE extra[k]]

\* tile_meta_json[k] = v.clone() for every (k, v) of the extra object
Merge(doc, extra) ==
    [k \in (DOMAIN doc) \cup (DOMAIN extra) |->
        IF k \in DOMAIN extra THEN extra[k] ELSE doc[k]]

AddMap_Always(doc, request, tile_name, no_preview) ==
    Merge(doc, Obj("map", <<BaseUrl(request), tile_name, "map">>))

\* tile_meta_json["map"] = format!("{}/{}/{}", base_url, tile_name, "map")
\* unless previews are disabled
AddMap(doc, request, tile_name, no_preview) ==
    IF no_preview THEN doc
    ELSE Merge(doc, Obj("map", <<BaseUrl(request), tile_name, "map">>))

\* the TileJSON body of the detail route: the json! object, the keys of the
\* extra object stored over it, then the "map" key
TileJson(request, tile_name, meta, no_preview) ==
    LET computed == Computed(request, tile_name, meta)
        merged   == IF meta.json.some THEN Merge(computed, meta.json.obj)
                    ELSE computed
    IN  <<"tilejson", AddMap(merged, request, tile_name, no_preview)>>

PreviewResponse_Always(no_preview) == tile_map

\* the preview route of a known tileset
PreviewResponse(no_preview) == IF no_preview THEN not_found ELSE tile_map

\* the None arm of get_service and the final Ok(not_found())
OtherRoute(request, segs, tilesets, hdrs, no_preview) ==
    IF segs = <<>> \/ ~StartsWith(Chars(SegText(segs[1])), Chars("services"))
    THEN not_found
    ELSE IF Len(segs) = 1
    THEN Response(200, Listing(request, tilesets), "application/json", "", hdrs)
    ELSE LET tile_name == Join(segs, 2, Len(segs))
         IN  IF tile_name \in DOMAIN tilesets
             THEN Response(200,
                           TileJson(request, tile_name, tilesets[tile_name],
                                    no_preview),
                           "application/json", "", hdrs)
             ELSE IF segs[Len(segs)] = Name("map")
             THEN LET map_name == Join(segs, 2, Len(segs) - 1)
                  IN  IF map_name \in DOMAIN tilesets
                      THEN PreviewResponse(no_preview)
                      ELSE bad_request(<<"Tileset does not exist", map_name>>)
             ELSE bad_request(<<"Tileset does not exist", tile_name>>)

----------------------------------------------------------------------------
(* Inputs *)

Handlers == {"h1", "h2"}

Star    == <<"*">>
BCom    == <<"b", ".", "c", "o", "m">>
ABCom   == <<"a", ".">> \o BCom
DotBCom == <<".">> \o BCom

Request(host, scheme, path, query) ==
    [host |-> host, scheme |-> scheme, path |-> path, query |-> query]
NoRequest == Request(NoHost, NoScheme, <<>>, NoQuery)

TilePath(id, z, x, y, ext) ==
    <<Name("services")>> \o [i \in 1..Len(id) |-> Name(id[i])]
        \o <<Name("tiles"), z, x, File(y, ext)>>

DetailPath(id) == <<Name("services")>> \o [i \in 1..Len(id) |-> Name(id[i])]

\* requests of the concurrent specification
SmallRequests ==
    {Request(BCom, NoScheme, p, NoQuery) :
        p \in {TilePath(T2, Num(0), Num(0), 0, "pbf"),
               DetailPath(<<>>)}}
    \cup {Request(NoHost, NoScheme, DetailPath(T2), NoQuery)}

\* (z, x, y) of the tile requests: hits, misses, y >= 2^z and z >= 32
Coords == {<<0, 0, 0>>, <<1, 0, 1>>, <<1, 0, 0>>, <<1, 1, 0>>, <<1, 0, 2>>, <<32, 0, 0>>}

Paths ==
    {TilePath(id, Num(c[1]), Num(c[2]), c[3], ext) :
        id \in {T1, T2, Unknown}, c \in Coords, ext \in {"png", "JSON", "json", "pbf"}}
    \cup {TilePath(T1, BigNum, Num(0), 0, "png"),
          <<Name("api"), Name("tileserver")>> \o TilePath(T1, Num(0), Num(0), 0, "png"),
          DetailPath(<<>>), DetailPath(T1), DetailPath(T2), DetailPath(Unknown),
          DetailPath(T1) \o <<Name("map")>>, DetailPath(Unknown) \o <<Name("map")>>,
          DetailPath(TMap), DetailPath(T2) \o <<Name("map")>>,
          <<Name("servicesfoo")>>, <<Name("servicesfoo"), Name("x")>>,
          <<Name("other")>>, <<Name("other"), Name("services")>>, <<>>}

\* the non-tile paths asked with a scheme and a query string as well
PlainPaths == {p \in Paths : TileMatchAt(ReplaceGateway(p)) = {}}

AllRequests ==
    {Request(h, NoScheme, p, NoQuery) :
        h \in {NoHost, BCom, ABCom, ABCom \o <<":", "8", "0">>, <<NonAscii>>},
        p \in Paths}
    \cup {Request(ABCom \o <<":", "8", "0">>, sch, p, q) :
             sch \in {NoScheme, "http"}, p \in PlainPaths, q \in {NoQuery, "", "k=v"}}

RuleSets == {<<Star>>, <<DotBCom>>, <<ABCom>>}

HeaderSets == {<<>>, <<<<"Access-Control-Allow-Origin", "*">>>>}

Subdomains == {"", "/maps"}

\* <<allowed_hosts, headers, disable_preview, sub_domain>> of the
\* request-level specification
Configs ==
    {<<r, <<>>, FALSE, "">> : r \in RuleSets}
    \cup {<<<<Star>>, hd, np, sd>> :
             hd \in HeaderSets, np \in BOOLEAN, sd \in Subdomains}

----------------------------------------------------------------------------
(* State *)

NoSnap == [taken |-> FALSE, tileset |-> EmptyCatalog]

RescanSpawned_Always(interval) == TRUE

\* if _si > 0 { tokio::task::spawn(..) }
RescanSpawned(interval) == interval > 0

\* main, lines 48-72: the startup scan fills the catalog; the rescan task is
\* spawned only when the interval is positive
Startup(rules, hdrs, nopreview, interval, files) ==
    /\ allowed_hosts = rules
    /\ headers = hdrs
    /\ disable_preview = nopreview
    /\ scan_interval = interval
    /\ disk = files
    /\ shared = Discover(files, 0)
    /\ published = <<Discover(files, 0)>>
    /\ readers = {}
    /\ writer = FALSE
    /\ rpc = IF RescanSpawned(interval) THEN "spawned" ELSE "none"
    /\ running = {}
    /\ conns = {}
    /\ scanned = EmptyCatalog
    /\ visited = {}
    /\ gen = 0
    /\ pc = [h \in Handlers |-> "idle"]
    /\ snap = [h \in Handlers |-> NoSnap]
    /\ resp = [h \in Handlers |-> NoResp]
    /\ probe = [h \in Handlers |-> NoProbe]

\* the tasks of the runtime: the rescan task and one task per connection
Tasks == Handlers \cup {"rescan"}

Init ==
    \E interval \in {0, 1} :
        /\ Startup(<<Star>>, <<>>, FALSE, interval, Files)
        /\ subdomain = ""
        /\ workers = Cardinality(Tasks)
        /\ req = [h \in Handlers |-> NoRequest]

config == <<allowed_hosts, headers, disable_preview, scan_interval, subdomain, workers>>
rescan == <<rpc, scanned, visited, gen, published>>
lock   == <<readers, writer>>

----------------------------------------------------------------------------
(* The rescan task: main, lines 61-68 *)

\* a worker thread is free to poll a task
FreeWorker == Cardinality(running) < workers

\* a worker thread takes the spawned task; the loop has no await, so the
\* task never gives the thread back
RescanStart ==
    /\ rpc = "spawned"
    /\ FreeWorker
    /\ running' = running \cup {"rescan"}
    /\ rpc' = "sleep"
    /\ UNCHANGED <<config, conns, disk, shared, lock, scanned, visited, gen, published,
                   pc, req, snap, resp, probe>>

\* a file appears in or disappears from the directory
DiskChange ==
    /\ \E f \in Files : disk' = IF f \in disk THEN disk \ {f} ELSE disk \cup {f}
    /\ UNCHANGED <<config, running, conns, shared, lock, rescan, pc, req, snap, resp, probe>>

\* RwLock::write can be granted
CanWriteLock_IgnoreReaders == ~writer

CanWriteLock == ~writer /\ readers = {}

\* RwLock::read can be granted
CanReadLock == ~writer

RescanTick_LockFirst ==
    /\ rpc = "sleep"
    /\ gen < MaxScans
    /\ CanWriteLock
    /\ writer' = TRUE
    /\ rpc' = "scan"
    /\ gen' = gen + 1
    /\ scanned' = EmptyCatalog
    /\ visited' = {}
    /\ UNCHANGED <<config, running, conns, disk, shared, readers, published, pc, req, snap, resp, probe>>

\* sleep(_si) returns and discover_tilesets starts: the right-hand side of
\* the assignment is evaluated before the write lock is asked for
RescanTick ==
    /\ rpc = "sleep"
    /\ gen < MaxScans
    /\ rpc' = "scan"
    /\ gen' = gen + 1
    /\ scanned' = EmptyCatalog
    /\ visited' = {}
    /\ UNCHANGED <<config, running, conns, disk, shared, lock, published, pc, req, snap, resp, probe>>

\* the same turn of the loop once the model has stopped counting scans
RescanTickOn ==
    /\ rpc = "sleep"
    /\ gen = MaxScans
    /\ rpc' = "scan"
    /\ scanned' = EmptyCatalog
    /\ visited' = {}
    /\ UNCHANGED <<config, running, conns, disk, shared, lock, gen, published,
                   pc, req, snap, resp, probe>>

\* the directory walk looks at one more file
RescanStep ==
    /\ rpc = "scan"
    /\ \E f \in Files \ visited :
          /\ visited' = visited \cup {f}
          /\ scanned' = IF f \in disk THEN Insert(scanned, f, TileMeta(f, gen))
                        ELSE scanned
    /\ UNCHANGED <<config, running, conns, disk, shared, lock, rpc, gen, published,
                   pc, req, snap, resp, probe>>

\* the walk is over; _tst.write() is granted
RescanWriteLock ==
    /\ rpc = "scan"
    /\ visited = Files
    /\ CanWriteLock
    /\ writer' = TRUE
    /\ rpc' = "publish"
    /\ UNCHANGED <<config, running, conns, disk, shared, readers, scanned, visited, gen, published,
                   pc, req, snap, resp, probe>>

\* .tileset = <scan result>: the value stored by the assignment
Published(old, new) == new

\* the assignment, then the guard is dropped at the end of the statement;
\* the history has one value per counted scan
RescanPublish ==
    /\ rpc = "publish"
    /\ shared' = Published(shared, scanned)
    /\ published' = IF Len(published) <= gen THEN Append(published, shared')
                     ELSE [published EXCEPT ![Len(published)] = shared']
    /\ writer' = FALSE
    /\ rpc' = "sleep"
    /\ UNCHANGED <<config, running, conns, disk, readers, scanned, visited, gen,
                   pc, req, snap, resp, probe>>

----------------------------------------------------------------------------
(* The request handler: get_service *)

\* a request arrives on a connection; its task waits for a worker thread
Arrive(h, requests) ==
    /\ pc[h] = "idle"
    /\ \E r \in requests : req' = [req EXCEPT ![h] = r]
    /\ pc' = [pc EXCEPT ![h] = "queued"]
    /\ UNCHANGED <<config, running, conns, disk, shared, lock, rescan, snap, resp, probe>>

\* lines 103-105: a worker thread polls the task, which meets the host gate
HostGate(h) ==
    /\ pc[h] = "queued"
    /\ FreeWorker
    /\ running' = running \cup {h}
    /\ IF is_host_valid_panics(req[h].host)
       THEN /\ pc' = [pc EXCEPT ![h] = "aborted"]
            /\ resp' = resp
       ELSE IF ~is_host_valid(req[h].host, allowed_hosts)
       THEN /\ pc' = [pc EXCEPT ![h] = "done"]
            /\ resp' = [resp EXCEPT ![h] = forbidden]
       ELSE /\ pc' = [pc EXCEPT ![h] = "rlock"]
            /\ resp' = resp
    /\ UNCHANGED <<config, conns, disk, shared, lock, rescan, req, snap, probe>>

\* line 120: shared.read() is granted
ReadLock(h) ==
    /\ pc[h] = "rlock"
    /\ CanReadLock
    /\ readers' = readers \cup {h}
    /\ snap' = [snap EXCEPT ![h] = [taken |-> TRUE, tileset |-> EmptyCatalog]]
    /\ pc' = [pc EXCEPT ![h] = "clone"]
    /\ UNCHANGED <<config, running, conns, disk, shared, writer, rescan, req, resp, probe>>

\* line 120: .tileset.clone() copies one more entry of the map
CloneEntry(h) ==
    /\ pc[h] = "clone"
    /\ \E i \in (DOMAIN shared) \ (DOMAIN snap[h].tileset) :
          snap' = [snap EXCEPT ![h].tileset = Insert(@, i, shared[i])]
    /\ UNCHANGED <<config, running, conns, disk, shared, lock, rescan, pc, req, resp, probe>>

ReadUnlock_KeepGuard(h) ==
    /\ pc[h] = "clone"
    /\ (DOMAIN shared) \subseteq (DOMAIN snap[h].tileset)
    /\ pc' = [pc EXCEPT ![h] = "route"]
    /\ UNCHANGED <<config, running, conns, disk, shared, lock, rescan, req, snap, resp, probe>>

\* line 120: the clone is complete and the guard is dropped with the statement
ReadUnlock(h) ==
    /\ pc[h] = "clone"
    /\ (DOMAIN shared) \subseteq (DOMAIN snap[h].tileset)
    /\ readers' = readers \ {h}
    /\ pc' = [pc EXCEPT ![h] = "route"]
    /\ UNCHANGED <<config, running, conns, disk, shared, writer, rescan, req, snap, resp, probe>>

\* line 109
PathOf(h) == ReplaceGateway(req[h].path)

\* tilesets: the catalog the handler answers from
Tilesets(h) == snap[h].tileset

\* the connections of the pool of a catalog entry that are checked out
InUse(meta) == {c \in conns : c[2] = meta.id /\ c[3] = meta.scan}

\* connection_pool.get() returns a connection
PoolFree(meta) == Cardinality(InUse(meta)) < PoolSize

\* lines 123-184: the path matches TILE_URL_RE.  The handler ends without
\* storage (unknown id, a coordinate that aborts, a grid request to a
\* tileset without grids), or takes a connection from the entry's pool
TileRequest(h) ==
    /\ pc[h] = "route"
    /\ TileMatchAt(PathOf(h)) # {}
    /\ \E o \in TileRoute(TileCaptures(PathOf(h)), Tilesets(h), headers) :
          IF o.probe = NoProbe
          THEN /\ pc' = [pc EXCEPT ![h] = IF o.abort THEN "aborted" ELSE "done"]
               /\ resp' = [resp EXCEPT ![h] = o.resp]
               /\ UNCHANGED conns
          ELSE LET meta == Tilesets(h)[TileCaptures(PathOf(h)).tile_path]
               IN  /\ PoolFree(meta)
                   /\ conns' = conns \cup {<<h, meta.id, meta.scan>>}
                   /\ pc' = [pc EXCEPT ![h] = "query"]
                   /\ resp' = resp
    /\ UNCHANGED <<config, running, disk, shared, lock, rescan, req, snap, probe>>

\* lines 144-182: the lookup on the connection; the response is built and
\* the connection goes back to its pool
TileQuery(h) ==
    /\ pc[h] = "query"
    /\ \E o \in TileRoute(TileCaptures(PathOf(h)), Tilesets(h), headers) :
          /\ o.probe # NoProbe
          /\ pc' = [pc EXCEPT ![h] = "done"]
          /\ resp' = [resp EXCEPT ![h] = o.resp]
          /\ probe' = [probe EXCEPT ![h] = o.probe]
    /\ conns' = {c \in conns : c[1] # h}
    /\ UNCHANGED <<config, running, disk, shared, lock, rescan, req, snap>>

\* lines 185-294: it does not
OtherRequest(h) ==
    /\ pc[h] = "route"
    /\ TileMatchAt(PathOf(h)) = {}
    /\ pc' = [pc EXCEPT ![h] = "done"]
    /\ resp' = [resp EXCEPT ![h] =
                   OtherRoute(req[h], PathOf(h), Tilesets(h), headers, disable_preview)]
    /\ UNCHANGED <<config, running, conns, disk, shared, lock, rescan, req, snap, probe>>

\* the response has been sent, or the task of the aborted handler is gone;
\* the connection serves its next request
Finish(h) ==
    /\ pc[h] \in {"done", "aborted"}
    /\ pc' = [pc EXCEPT ![h] = "idle"]
    /\ req' = [req EXCEPT ![h] = NoRequest]
    /\ snap' = [snap EXCEPT ![h] = NoSnap]
    /\ resp' = [resp EXCEPT ![h] = NoResp]
    /\ probe' = [probe EXCEPT ![h] = NoProbe]
    /\ running' = running \ {h}
    /\ UNCHANGED <<config, conns, disk, shared, lock, rescan>>

----------------------------------------------------------------------------
(* Specifications *)

\* the server: concurrent handlers, the rescan task and the directory
Next ==
    \/ DiskChange
    \/ RescanStart
    \/ RescanTick
    \/ RescanStep
    \/ RescanWriteLock
    \/ RescanPublish
    \/ \E h \in Handlers : Arrive(h, SmallRequests)
    \/ \E h \in Handlers : HostGate(h)
    \/ \E h \in Handlers : ReadLock(h)
    \/ \E h \in Handlers : CloneEntry(h)
    \/ \E h \in Handlers : ReadUnlock(h)
    \/ \E h \in Handlers : TileRequest(h)
    \/ \E h \in Handlers : TileQuery(h)
    \/ \E h \in Handlers : OtherRequest(h)
    \/ \E h \in Handlers : Finish(h)

Spec == Init /\ [][Next]_vars

\* one handler serving every request of AllRequests under every
\* configuration, against the catalog of the startup scan
InitReq ==
    \E cfg \in Configs, files \in SUBSET AllFiles :
        /\ Startup(cfg[1], cfg[2], cfg[3], 0, files)
        /\ subdomain = cfg[4]
        /\ workers = 1
        /\ req = [h \in Handlers |-> NoRequest]

NextReq ==
    \/ Arrive("h1", AllRequests)
    \/ HostGate("h1")
    \/ ReadLock("h1")
    \/ CloneEntry("h1")
    \/ ReadUnlock("h1")
    \/ TileRequest("h1")
    \/ TileQuery("h1")
    \/ OtherRequest("h1")
    \/ Finish("h1")

SpecReq == InitReq /\ [][NextReq]_vars

\* is_host_valid on every Host value and rule within the bounds
HostAlphabet == {"a", "b", ".", ":"}

StringsUpTo(alphabet, n) == UNION {[1..k -> alphabet] : k \in 0..n}

HostValues ==
    StringsUpTo(HostAlphabet, MaxHostLen) \cup {NoHost, BCom, ABCom, <<NonAscii>>}

RuleValues ==
    {<<".">> \o t : t \in StringsUpTo({"a", "b", "."}, MaxRuleLen) \ {<<>>}}
        \cup {Star, BCom, DotBCom}

\* requests that differ only in the Host header
HostRequests == {Request(host, NoScheme, <<>>, NoQuery) : host \in HostValues}

InitHost ==
    \E rule \in RuleValues :
        /\ Startup(<<rule>>, <<>>, FALSE, 0, Files)
        /\ subdomain = ""
        /\ workers = 1
        /\ req = [h \in Handlers |-> NoRequest]

NextHost ==
    \/ Arrive("h1", HostRequests)
    \/ HostGate("h1")

SpecHost == InitHost /\ [][NextHost]_vars

\* the server on a runtime of one or two worker threads, rescanning enabled
\* and going on for ever, with one connection and an unchanging directory
InitSched ==
    \E w \in {1, 2} :
        /\ Startup(<<Star>>, <<>>, FALSE, 1, Files)
        /\ subdomain = ""
        /\ workers = w
        /\ req = [h \in Handlers |-> NoRequest]

NextSched ==
    \/ RescanStart
    \/ RescanTick
    \/ RescanTickOn
    \/ RescanStep
    \/ RescanWriteLock
    \/ RescanPublish
    \/ Arrive("h1", SmallRequests)
    \/ HostGate("h1")
    \/ ReadLock("h1")
    \/ CloneEntry("h1")
    \/ ReadUnlock("h1")
    \/ TileRequest("h1")
    \/ TileQuery("h1")
    \/ OtherRequest("h1")
    \/ Finish("h1")

\* a step of the rescan task
RescanTask ==
    \/ RescanStart
    \/ RescanTick
    \/ RescanTickOn
    \/ RescanStep
    \/ RescanWriteLock
    \/ RescanPublish

\* a step of the task of a connection, once its request has arrived
HandlerTask(h) ==
    \/ HostGate(h)
    \/ ReadLock(h)
    \/ CloneEntry(h)
    \/ ReadUnlock(h)
    \/ TileRequest(h)
    \/ TileQuery(h)
    \/ OtherRequest(h)
    \/ Finish(h)

\* the threads run: the rescan task steps whenever it stays able to, and a
\* handler that is able to step again and again (the lock it waits for is
\* free between two publishes) does step
FairSched == WF_vars(RescanTask) /\ SF_vars(HandlerTask("h1"))

SpecSched == InitSched /\ [][NextSched]_vars /\ FairSched

----------------------------------------------------------------------------
(* Properties *)

Range(f) == {f[i] : i \in DOMAIN f}

PassedGate(h) == snap[h].taken

IsTileRequest(h) == TileMatchAt(PathOf(h)) # {}

Captures(h) == TileCaptures(PathOf(h))

\* a tile or grid request to a tileset of the captured snapshot, answered
KnownTileDone(h) ==
    /\ pc[h] = "done"
    /\ PassedGate(h)
    /\ IsTileRequest(h)
    /\ Captures(h).tile_path \in DOMAIN snap[h].tileset

\* the id a request names: the tile_path of a tile request, else the
\* segments after "services" (less a final "map")
RequestedId(h) ==
    LET segs == PathOf(h)
    IN  IF IsTileRequest(h) THEN Captures(h).tile_path
        ELSE IF Len(segs) >= 2 /\ segs[Len(segs)] = Name("map")
        THEN Join(segs, 2, Len(segs) - 1)
        ELSE Join(segs, 2, Len(segs))

\* the responses get_service can give to a request from a catalog value
Answers(request, tilesets) ==
    LET segs == ReplaceGateway(request.path)
    IN  IF TileMatchAt(segs) # {}
        THEN {o.resp : o \in {a \in TileRoute(TileCaptures(segs), tilesets, headers) :
                                 ~a.abort}}
        ELSE {OtherRoute(request, segs, tilesets, headers, disable_preview)}

\* C1: every catalog a handler has captured is one published catalog value,
\* whole (never entries of two scans), and the response of a finished
\* request is the answer to it from that captured value.
C1_SnapshotAtomicity ==
    \A h \in Handlers :
        /\ (pc[h] \in {"route", "query", "done", "aborted"} /\ PassedGate(h))
              => snap[h].tileset \in Range(published)
        /\ (pc[h] = "done" /\ PassedGate(h))
              => resp[h] \in Answers(req[h], snap[h].tileset)

\* a request answered with 200 from the catalog it captured, after a rescan
\* replaced the shared catalog by a different one while it was in flight
C1_Witness ==
    \E h \in Handlers :
        /\ pc[h] = "done"
        /\ PassedGate(h)
        /\ resp[h].status = 200
        /\ snap[h].tileset # shared
        /\ Len(published) >= 2
        /\ snap[h].tileset = published[Len(published) - 1]

\* C2 (as claimed): after a rescan publish the shared catalog is that scan's
\* result, and a finished request that captured a rescan's catalog from
\* which its tileset had disappeared was answered 400.
C2_RemovedTilesetIsUnknown ==
    /\ (rpc = "sleep" /\ gen > 0) => shared = scanned
    /\ \A h \in Handlers :
          (/\ pc[h] \in {"done", "aborted"}
           /\ PassedGate(h)
           /\ \E k \in 2..Len(published) :
                 /\ snap[h].tileset = published[k]
                 /\ RequestedId(h) \in DOMAIN published[k - 1]
                 /\ RequestedId(h) \notin DOMAIN published[k])
          => (pc[h] = "done" /\ resp[h].status = 400)

\* C3 (as claimed): a tile/grid request whose id is not in the captured
\* snapshot ends with a 400 response that names the id; it is not aborted.
C3_UnknownTilesetIs400 ==
    \A h \in Handlers :
        (/\ pc[h] \in {"done", "aborted"}
         /\ PassedGate(h)
         /\ IsTileRequest(h)
         /\ Captures(h).tile_path \notin DOMAIN snap[h].tileset)
        => /\ pc[h] = "done"
           /\ resp[h].status = 400
           /\ Captures(h).tile_path \in Range(resp[h].body)

\* C4: the write lock is held only between its grant and the replacement of
\* the catalog: not while the task sleeps or scans, when a reader can lock.
C4_ScanWithoutWriteLock == (rpc # "publish") => (~writer /\ CanReadLock)

\* a handler holds the read lock and has copied an entry of the old catalog
\* while the directory walk of a rescan is under way
C4_Witness ==
    /\ rpc = "scan"
    /\ visited # {}
    /\ visited # Files
    /\ \E h \in Handlers :
          /\ pc[h] = "clone"
          /\ h \in readers
          /\ \E i \in DOMAIN snap[h].tileset : snap[h].tileset[i].scan < gen

\* the allow rule of the data model: "*", an exact host, or a leading-dot
\* rule matched as a suffix with its dot
RuleAllows(rule, host) ==
    \/ rule = Star
    \/ rule = host
    \/ StartsWith(rule, <<".">>) /\ EndsWith(host, rule)

\* C5 (as claimed): a rule ".S" lets a host through iff the host, its port
\* stripped, ends with ".S".
C5_LeadingDotKeepsDot ==
    LET rule == allowed_hosts[1]
        host == req["h1"].host
    IN  (/\ pc["h1"] \in {"rlock", "done"}
         /\ StartsWith(rule, <<".">>)
         /\ host # NoHost)
        => ((pc["h1"] = "rlock") <=> EndsWith(SplitFirst(host, ":"), rule))

\* C6 (as claimed): a request with no Host header, or whose host matches no
\* rule, is answered 403 "Forbidden" without a catalog read or a storage
\* access; with "*" among the rules every present host passes the gate.
C6_HostGate ==
    \A h \in Handlers :
        LET host  == req[h].host
            bare  == SplitFirst(host, ":")
            allow == /\ host # NoHost
                     /\ \E i \in 1..Len(allowed_hosts) : RuleAllows(allowed_hosts[i], bare)
        IN  /\ (pc[h] \notin {"idle", "queued"} /\ ~allow)
                  => /\ pc[h] = "done"
                     /\ resp[h] = forbidden
                     /\ ~snap[h].taken
                     /\ probe[h] = NoProbe
            /\ (pc[h] \in {"done", "aborted"} /\ host # NoHost
                    /\ Star \in Range(allowed_hosts))
                  => PassedGate(h)

\* C7: a finished tile request to a known tileset with an extension other
\* than json and pbf made one tile lookup at its (z, x) and was answered
\* 200: with the blank image when the cell is absent, with the stored blob
\* and no content-encoding when it is present.
C7_RasterPolicy ==
    \A h \in Handlers :
        (KnownTileDone(h) /\ Captures(h).format \notin {"json", "pbf"})
        => LET id   == Captures(h).tile_path
               cell == probe[h].cell
           IN  /\ probe[h].kind = "tile"
               /\ probe[h].id = id
               /\ cell[1] = Captures(h).z.n
               /\ cell[2] = Captures(h).x.n
               /\ resp[h].status = 200
               /\ cell \notin TilesOf(id) => resp[h].body = get_blank_image
               /\ cell \in TilesOf(id)
                     => /\ resp[h].body = <<"tile", id, cell[1], cell[2], cell[3]>>
                        /\ resp[h].content_encoding = ""

\* a raster request for a cell that storage does not have, answered
C7_Witness ==
    \E h \in Handlers :
        /\ KnownTileDone(h)
        /\ Captures(h).format = "png"
        /\ probe[h].kind = "tile"
        /\ ~probe[h].hit
        /\ resp[h].body = get_blank_image

\* C8: a finished ".json" request to a known tileset is 404 with no storage
\* access when the tileset has no grid format; otherwise 204 with an empty
\* body when the cell has no grid, and 200 with the gzip of the serialized
\* grid when it has.
C8_GridPolicy ==
    \A h \in Handlers :
        (KnownTileDone(h) /\ Captures(h).format = "json")
        => LET id   == Captures(h).tile_path
               cell == probe[h].cell
           IN  IF GridFormatOf(id) = "None"
               THEN resp[h].status = 404 /\ probe[h] = NoProbe
               ELSE /\ probe[h].kind = "grid"
                    /\ probe[h].id = id
                    /\ cell \notin GridsOf(id)
                          => resp[h].status = 204 /\ resp[h].body = <<>>
                    /\ cell \in GridsOf(id)
                          => /\ resp[h].status = 200
                             /\ resp[h].content_encoding = "gzip"
                             /\ resp[h].body =
                                   encode(to_vec(<<"grid", id, cell[1], cell[2], cell[3]>>))

\* a grid request to a tileset with grids, for a cell that has none
C8_Witness ==
    \E h \in Handlers :
        /\ KnownTileDone(h)
        /\ Captures(h).format = "json"
        /\ probe[h].kind = "grid"
        /\ ~probe[h].hit
        /\ resp[h].status = 204

\* C9 (as claimed): a finished ".pbf" request to a known tileset is 204 with
\* an empty body on a miss; on a hit the body is compress(stored blob), with
\* the pbf content type and gzip content-encoding.
C9_PbfHitIsCompressed ==
    \A h \in Handlers :
        (KnownTileDone(h) /\ Captures(h).format = "pbf")
        => LET id   == Captures(h).tile_path
               cell == probe[h].cell
           IN  /\ probe[h].kind = "tile"
               /\ cell \notin TilesOf(id)
                     => resp[h].status = 204 /\ resp[h].body = <<>>
               /\ cell \in TilesOf(id)
                     => /\ resp[h].body = encode(<<"tile", id, cell[1], cell[2], cell[3]>>)
                        /\ resp[h].content_type = content_type("pbf")
                        /\ resp[h].content_encoding = "gzip"

\* C9 (amended): on a hit the body is the stored blob as it is, not passed
\* through the compress helper, with the pbf content type and gzip
\* content-encoding; on a miss the response is 204 with an empty body.
C9_PbfHitIsStoredBlob ==
    \A h \in Handlers :
        (KnownTileDone(h) /\ Captures(h).format = "pbf")
        => LET id   == Captures(h).tile_path
               cell == probe[h].cell
           IN  /\ probe[h].kind = "tile"
               /\ probe[h].id = id
               /\ cell \notin TilesOf(id)
                     => resp[h].status = 204 /\ resp[h].body = <<>>
               /\ cell \in TilesOf(id)
                     => /\ resp[h].status = 200
                        /\ resp[h].body = <<"tile", id, cell[1], cell[2], cell[3]>>
                        /\ resp[h].content_type = content_type("pbf")
                        /\ resp[h].content_encoding = "gzip"

\* a pbf request for a stored cell, answered
C9_Witness ==
    \E h \in Handlers :
        /\ KnownTileDone(h)
        /\ Captures(h).format = "pbf"
        /\ probe[h].kind = "tile"
        /\ probe[h].hit
        /\ resp[h].status = 200

\* C10 (as claimed): every response to a tile/grid request, and every
\* listing and detail response, carries every configured extra header.
C10_HeadersOnEveryResponse ==
    \A h \in Handlers :
        (/\ pc[h] = "done"
         /\ PassedGate(h)
         /\ \/ IsTileRequest(h)
            \/ /\ resp[h].status = 200
               /\ resp[h].body[1] \in {"listing", "tilejson"})
        => \A i \in 1..Len(headers) : headers[i] \in Range(resp[h].headers)

\* a finished request, past the gate, for /services/<one or more segments>
\* that is not a tile request
UnderServicesDone(h) ==
    /\ pc[h] = "done"
    /\ PassedGate(h)
    /\ ~IsTileRequest(h)
    /\ Len(PathOf(h)) >= 2
    /\ PathOf(h)[1] = Name("services")

\* the path ends with the segment "map"
IsMapPath(h) == PathOf(h)[Len(PathOf(h))] = Name("map")

\* all segments after "services", and all but a final "map"
WholeId(h) == Join(PathOf(h), 2, Len(PathOf(h)))
MapId(h) == Join(PathOf(h), 2, Len(PathOf(h)) - 1)

Known(h, id) == id \in DOMAIN snap[h].tileset

\* the answers of the preview route /services/T/map
PreviewAnswer(h) ==
    IF Known(h, MapId(h))
    THEN resp[h] = (IF disable_preview THEN not_found ELSE tile_map)
    ELSE /\ resp[h].status = 400
         /\ resp[h].body = <<"Tileset does not exist", MapId(h)>>

\* C11 (as claimed): for every catalog and every id T, /services/T/map is
\* the preview page (200) when T is known and previews are enabled, 404 when
\* T is known and previews are disabled, 400 "Tileset does not exist" when T
\* is unknown; /services/T is 200 for a known T in both cases.
C11_PreviewRoute ==
    \A h \in Handlers :
        UnderServicesDone(h)
        => /\ IsMapPath(h) => PreviewAnswer(h)
           /\ Known(h, WholeId(h)) => resp[h].status = 200

\* C11 (amended): the same, for the paths /services/T/map whose whole id
\* "T/map" is not itself an id of the catalog; where it is, the path is the
\* detail route of that tileset and is answered 200 with its TileJSON.
C11_PreviewRouteUnlessTileset ==
    \A h \in Handlers :
        UnderServicesDone(h)
        => /\ (IsMapPath(h) /\ ~Known(h, WholeId(h))) => PreviewAnswer(h)
           /\ Known(h, WholeId(h))
                 => resp[h].status = 200 /\ resp[h].body[1] = "tilejson"

\* the preview of a known tileset asked with previews disabled, answered 404
C11_Witness ==
    \E h \in Handlers :
        /\ UnderServicesDone(h)
        /\ IsMapPath(h)
        /\ Known(h, MapId(h))
        /\ ~Known(h, WholeId(h))
        /\ disable_preview
        /\ resp[h] = not_found

\* a finished detail request: the whole remainder is an id of the snapshot
DetailDone(h) == UnderServicesDone(h) /\ Known(h, WholeId(h))

\* the entry and the returned document of a finished detail request
DetailMeta(h) == snap[h].tileset[WholeId(h)]
DetailDoc(h) == resp[h].body[2]

\* the keys of the entry's extra metadata object
ExtraKeys(h) ==
    IF DetailMeta(h).json.some THEN DOMAIN DetailMeta(h).json.obj ELSE {}

\* a one-element array holding a {z}/{x}/{y} template with extension ext
OneTemplate(v, ext) ==
    /\ Len(v) = 1
    /\ v[1].z = "{z}" /\ v[1].x = "{x}" /\ v[1].y = "{y}"
    /\ v[1].ext = ext

\* C12 (as claimed): the detail document of every known tileset, with or
\* without extra metadata or a query string, has a "tiles" array of one
\* element, a template with {z}, {x}, {y} and the declared format extension,
\* and has a "map" field iff previews are not disabled.
C12_DetailDocument ==
    \A h \in Handlers :
        DetailDone(h)
        => /\ resp[h].status = 200
           /\ "tiles" \in DOMAIN DetailDoc(h)
           /\ OneTemplate(DetailDoc(h)["tiles"], DetailMeta(h).tile_format)
           /\ ("map" \in DOMAIN DetailDoc(h)) <=> ~disable_preview

\* C12 (amended): "tiles" is that one-element array unless the extra
\* metadata object has a "tiles" key; "map" is present iff previews are not
\* disabled or the extra metadata object has a "map" key.
C12_DetailDocumentUnlessOverridden ==
    \A h \in Handlers :
        DetailDone(h)
        => /\ resp[h].status = 200
           /\ "tiles" \in DOMAIN DetailDoc(h)
           /\ "tiles" \notin ExtraKeys(h)
                 => OneTemplate(DetailDoc(h)["tiles"], DetailMeta(h).tile_format)
           /\ ("map" \in DOMAIN DetailDoc(h))
                 <=> (~disable_preview \/ "map" \in ExtraKeys(h))

\* the detail document of a tileset with extra metadata, asked with a query
\* string while previews are disabled: one template, no "map"
C12_Witness ==
    \E h \in Handlers :
        /\ DetailDone(h)
        /\ ExtraKeys(h) # {}
        /\ req[h].query = "k=v"
        /\ disable_preview
        /\ "map" \notin DOMAIN DetailDoc(h)
        /\ Len(DetailDoc(h)["tiles"]) = 1
        /\ DetailDoc(h)["tiles"][1].query = "?k=v"

\* a finished request, past the gate, that is not a tile request
PlainDone(h) == pc[h] = "done" /\ PassedGate(h) /\ ~IsTileRequest(h)

\* the path, gateway prefix removed, has "services" as its first segment
UnderServices(h) == PathOf(h) # <<>> /\ PathOf(h)[1] = Name("services")

IsListing(h) == resp[h].status = 200 /\ resp[h].body[1] = "listing"

\* C13 (as claimed): the listing is returned only for the path that is
\* exactly the one segment "services"; a path not under "services" that is
\* no tile request ("/servicesfoo", "/servicesfoo/x") is answered 404
\* "Not Found".
C13_RouteClassification ==
    \A h \in Handlers :
        PlainDone(h)
        => /\ IsListing(h) => PathOf(h) = <<Name("services")>>
           /\ ~UnderServices(h) => resp[h] = not_found

\* <scheme>://<declared host><subdomain-suffix>/services of a request
ClaimedBaseUrl(h) ==
    [scheme |-> (IF req[h].scheme = NoScheme THEN "https" ELSE req[h].scheme)
                    \o "://",
     host |-> req[h].host, subdomain |-> subdomain, services |-> "/services"]

\* C14: GET /services against a snapshot of N entries is answered 200 with
\* an array of exactly N elements, one per id, each with its entry's format
\* and the URL <base_url>/<id>, where base_url is
\* <scheme>://<declared host><subdomain-suffix>/services and the scheme is
\* https when the request URI declares none.
C14_Listing ==
    \A h \in Handlers :
        (PlainDone(h) /\ PathOf(h) = <<Name("services")>>)
        => LET list == resp[h].body[2]
               cat  == snap[h].tileset
           IN  /\ IsListing(h)
               /\ Len(list) = Cardinality(DOMAIN cat)
               /\ \A id \in DOMAIN cat :
                     \E n \in 1..Len(list) :
                        /\ list[n].url = [base |-> ClaimedBaseUrl(h), id |-> id]
                        /\ list[n].image_type = cat[id].tile_format

\* a listing of three tilesets under a subdomain suffix, for a request whose
\* URI declares no scheme and whose Host has a port
C14_Witness ==
    \E h \in Handlers :
        /\ PlainDone(h)
        /\ PathOf(h) = <<Name("services")>>
        /\ Cardinality(DOMAIN snap[h].tileset) = 3
        /\ Len(resp[h].body[2]) = 3
        /\ subdomain # ""
        /\ req[h].scheme = NoScheme
        /\ ":" \in Range(req[h].host)
        /\ resp[h].body[2][1].url.base.scheme = "https://"

\* the handler has cloned a catalog
Captured(h) == pc[h] \in {"route", "query", "done", "aborted"} /\ PassedGate(h)

\* the rescans that have stored their result
ScansPublished == IF rpc \in {"scan", "publish"} THEN gen - 1 ELSE gen

\* C15: with a zero interval there is no rescan task, the shared catalog
\* is never written after the startup scan and every request captures the
\* startup catalog; with a positive interval there is one rescan task and
\* every interval that has elapsed ends with one new catalog stored.
C15_RescanOnlyWhenEnabled ==
    /\ scan_interval = 0
          => /\ rpc = "none"
             /\ "rescan" \notin running
             /\ ~writer
             /\ published = <<shared>>
             /\ \A h \in Handlers :
                   Captured(h) => snap[h].tileset = published[1]
    /\ scan_interval > 0
          => /\ rpc # "none"
             /\ Len(published) = 1 + ScansPublished
             /\ shared = published[Len(published)]

\* rescanning is off, the directory has changed since startup, and a
\* request was answered 200 from the startup catalog
C15_Witness ==
    /\ scan_interval = 0
    /\ disk # DOMAIN published[1]
    /\ \E h \in Handlers :
          /\ pc[h] = "done"
          /\ PassedGate(h)
          /\ snap[h].tileset = published[1]
          /\ resp[h].status = 200

\* a tile or grid request to a known tileset whose coordinates parse and
\* whose extension leads to a storage lookup, finished or aborted
LookupEnded(h) ==
    /\ pc[h] \in {"done", "aborted"}
    /\ PassedGate(h)
    /\ IsTileRequest(h)
    /\ Known(h, Captures(h).tile_path)
    /\ ~ParseFails(Captures(h).z) /\ ~ParseFails(Captures(h).x)
    /\ Captures(h).format = "json"
          => snap[h].tileset[Captures(h).tile_path].grid_format = "Some"

\* 0 <= y < 2^z, for the y a request can carry (below 2^31)
RowInRange(z, y) == z >= 31 \/ y < 2 ^ z

\* 2^z - 1 - y as a 32-bit unsigned value; a value 2^32 - k is written -k
ClaimedRow(z, y) == IF z < 31 THEN 2 ^ z - 1 - y ELSE -(1 + y)

\* the flip of a flipped row
ClaimedRowTwice(z, y) ==
    IF z < 31 THEN 2 ^ z - 1 - ClaimedRow(z, y) ELSE -(1 + ClaimedRow(z, y))

\* C16 (as claimed): for every zoom z and row y with 0 <= y < 2^z the one
\* storage lookup of a tile or grid request is made at row 2^z - 1 - y, and
\* flipping that row again gives y.
C16_TmsFlip ==
    \A h \in Handlers :
        LET z == Captures(h).z.n
            y == Captures(h).y.n
        IN  (LookupEnded(h) /\ z <= 32 /\ RowInRange(z, y))
            => /\ pc[h] = "done"
               /\ probe[h].kind \in {"tile", "grid"}
               /\ probe[h].cell = <<z, Captures(h).x.n, ClaimedRow(z, y)>>
               /\ ClaimedRowTwice(z, y) = y

\* C17 (as claimed): with rescanning enabled and fair scheduling, however
\* many worker threads the runtime has and whatever the rescan task does on
\* the one it runs on, a request that has arrived is not held up for ever:
\* its handler runs and ends.
C17_RescanNeverBlocksRequest ==
    \A h \in Handlers :
        (pc[h] = "queued") ~> (pc[h] \in {"done", "aborted"})

\* the outcomes of a tile request that look up storage
StorageOutcomes(h) ==
    {o \in TileRoute(Captures(h), snap[h].tileset, headers) : o.probe # NoProbe}

\* the pool that the handler's request uses: id and scan of the entry
PoolOf(h) ==
    <<snap[h].tileset[Captures(h).tile_path].id,
      snap[h].tileset[Captures(h).tile_path].scan>>

\* the handlers that have a connection of that pool checked out
Holders(pool) == {c[1] : c \in {k \in conns : <<k[2], k[3]>> = pool}}

\* the handler is at connection_pool.get() and the pool has no connection
BlockedOnPool(h) ==
    /\ pc[h] = "route"
    /\ IsTileRequest(h)
    /\ StorageOutcomes(h) # {}
    /\ Cardinality(Holders(PoolOf(h))) >= PoolSize

\* the handler has its connection and its lookup can go on
CanQuery(h) == pc[h] = "query" /\ StorageOutcomes(h) # {}

\* the handler holds the read lock and its clone can go on
CanClone(h) == pc[h] = "clone" /\ h \in readers /\ snap[h].taken

\* the rescan task has its scan result and asks for the write lock
WriterWaits == rpc = "scan" /\ visited = Files

\* C18: a handler that acquires or uses a pooled connection holds no read
\* lock (the lock is held only while the catalog is cloned); the writer
\* waits for cloning handlers only, each of which can go on; a handler
\* blocked on a pool waits for handlers whose lookups can go on; a handler
\* waiting for the read lock waits for a writer that is about to publish.
C18_NoLockAcrossPool ==
    /\ \A h \in Handlers :
          /\ h \in readers => CanClone(h)
          /\ (pc[h] \in {"route", "query"} \/ \E c \in conns : c[1] = h)
                => h \notin readers
          /\ (\E c \in conns : c[1] = h) => CanQuery(h)
          /\ pc[h] = "query" => h \in Holders(PoolOf(h))
          /\ BlockedOnPool(h)
                => /\ h \notin Holders(PoolOf(h))
                   /\ \A g \in Holders(PoolOf(h)) : CanQuery(g)
          /\ (pc[h] = "rlock" /\ ~CanReadLock) => rpc = "publish"
    /\ (WriterWaits /\ ~CanWriteLock)
          => (~writer /\ \A h \in readers : CanClone(h))

\* a handler waits for the one connection of a pool that another handler
\* uses, while the rescan task holds the write lock
C18_Witness ==
    /\ writer
    /\ \E h \in Handlers : BlockedOnPool(h)

\* the extra metadata object of a finished detail request's entry
Extra(h) == DetailMeta(h).json.obj

\* the value the json! object gives to key k
ComputedValue(h, k) == Computed(req[h], WholeId(h), DetailMeta(h))[k]

\* C19 (as claimed): every key of the extra metadata object is in the detail
\* document with the extra object's value, over any computed field of that
\* name; the computed fields with no such key keep their computed values.
C19_MergePrecedence ==
    \A h \in Handlers :
        DetailDone(h)
        => /\ \A k \in ExtraKeys(h) :
                 k \in DOMAIN DetailDoc(h) /\ DetailDoc(h)[k] = Extra(h)[k]
           /\ \A k \in TileJsonKeys \ ExtraKeys(h) :
                 k \in DOMAIN DetailDoc(h) /\ DetailDoc(h)[k] = ComputedValue(h, k)

\* C19 (amended): the same for every key but "map"; an extra "map" key
\* keeps the extra object's value only when previews are disabled, and is
\* replaced by the preview URL <base_url>/<id>/map when they are not.
C19_MergePrecedenceExceptMap ==
    \A h \in Handlers :
        DetailDone(h)
        => /\ \A k \in ExtraKeys(h) \ {"map"} :
                 k \in DOMAIN DetailDoc(h) /\ DetailDoc(h)[k] = Extra(h)[k]
           /\ \A k \in TileJsonKeys \ ExtraKeys(h) :
                 k \in DOMAIN DetailDoc(h) /\ DetailDoc(h)[k] = ComputedValue(h, k)
           /\ ("map" \in ExtraKeys(h) /\ disable_preview)
                 => DetailDoc(h)["map"] = Extra(h)["map"]
           /\ ~disable_preview
                 => DetailDoc(h)["map"] =
                       <<ClaimedBaseUrl(h), WholeId(h), "map">>

\* a detail document whose computed "tiles" was replaced by the extra
\* object's, and whose extra "map" was replaced by the preview URL
C19_Witness ==
    \E h \in Handlers :
        /\ DetailDone(h)
        /\ {"tiles", "map"} \subseteq ExtraKeys(h)
        /\ ~disable_preview
        /\ DetailDoc(h)["tiles"] = Extra(h)["tiles"]
        /\ DetailDoc(h)["tiles"] # ComputedValue(h, "tiles")
        /\ DetailDoc(h)["map"] # Extra(h)["map"]

\* C20 (as claimed): the detail document has a "grids" field only when the
\* tileset has a grid format, and then it is a one-element array with the
\* ".json" template; for a tileset with no grid format and no "grids" key
\* in its extra metadata the document has no "grids" field.
C20_GridsOnlyWithGridFormat ==
    \A h \in Handlers :
        (DetailDone(h) /\ "grids" \notin ExtraKeys(h))
        => IF DetailMeta(h).grid_format = "Some"
           THEN /\ "grids" \in DOMAIN DetailDoc(h)
                /\ OneTemplate(DetailDoc(h)["grids"], "json")
           ELSE "grids" \notin DOMAIN DetailDoc(h)

\* a tile or grid request to a known tileset, finished or aborted
KnownTileEnded(h) ==
    /\ pc[h] \in {"done", "aborted"}
    /\ PassedGate(h)
    /\ IsTileRequest(h)
    /\ Known(h, Captures(h).tile_path)

\* (1 << z) - 1 - y has no exact value in 32-bit unsigned arithmetic
RowOverflows(z, y) == z >= 32 \/ y > 2 ^ z - 1

\* C21 (as claimed): a tile or grid request to a known tileset, whatever
\* decimal z, x, y it carries (z >= 32, y >= 2^z, values above the 32-bit
\* unsigned range), is not aborted by the parse or by the row arithmetic,
\* makes no lookup at a row that came from an overflow, and is answered
\* 200, 204 or 404.
C21_CoordinateTotality ==
    \A h \in Handlers :
        KnownTileEnded(h)
        => /\ pc[h] = "done"
           /\ resp[h].status \in {200, 204, 404}
           /\ (probe[h].kind # "none" /\ ~ParseFails(Captures(h).z)
                  /\ ~ParseFails(Captures(h).y))
                 => ~RowOverflows(Captures(h).z.n, Captures(h).y.n)

====
